---- MODULE Spec2Model ----
(***************************************************************************)
(* A model of the kiwi.js incremental constraint solver (solver.ts).       *)
(*                                                                         *)
(* Numbers are exact rationals <<n, d>> (d > 0, lowest terms): the         *)
(* solver's doubles are modelled without rounding.  A JavaScript Map is a  *)
(* sequence of entries in insertion order: set() of an existing key keeps  *)
(* its place, set() of a new key appends, delete() closes the gap.         *)
(***************************************************************************)
EXTENDS Integers, Sequences, FiniteSets, TLC

(***************************************************************************)
(* Rational arithmetic                                                     *)
(***************************************************************************)
Abs(i) == IF i < 0 THEN -i ELSE i

RECURSIVE GCD(_, _)
GCD(a, b) == IF b = 0 THEN a ELSE GCD(b, a % b)

Rat(n, d) ==
    LET g == GCD(Abs(n), Abs(d))
        s == IF d < 0 THEN -1 ELSE 1
    IN  <<(s * n) \div g, (s * d) \div g>>

Int2Rat(i) == <<i, 1>>
Zero == <<0, 1>>
One == <<1, 1>>
MinusOne == <<-1, 1>>

RAdd(a, b) == Rat(a[1] * b[2] + b[1] * a[2], a[2] * b[2])
RNeg(a) == <<-a[1], a[2]>>
RSub(a, b) == RAdd(a, RNeg(b))
RMul(a, b) == Rat(a[1] * b[1], a[2] * b[2])
RDiv(a, b) == Rat(a[1] * b[2], a[2] * b[1])
RAbs(a) == <<Abs(a[1]), a[2]>>
\* a < b; also right for b = MAX_VALUE, whose denominator is 0
RLt(a, b) == a[1] * b[2] < b[1] * a[2]
RLe(a, b) == ~RLt(b, a)
RNegative(a) == a[1] < 0
RPositive(a) == a[1] > 0
RMax(a, b) == IF RLt(a, b) THEN b ELSE a

\* Number.MAX_VALUE: above every ratio the bounded model can form
MAX_VALUE == <<1, 0>>

\* 1 / eps for eps = 1.0e-8
EpsInverse == 100000000

\* |value| < eps, as |n| * 10^8 < d without forming the product
nearZero(value) == Abs(value[1]) <= (value[2] - 1) \div EpsInverse

(***************************************************************************)
(* Symbols                                                                 *)
(***************************************************************************)
Symbol(type, id) == [type |-> type, id |-> id]

INVALID_SYMBOL == Symbol("Invalid", -1)

(***************************************************************************)
(* Rows: a constant and an insertion-ordered map from symbol to            *)
(* coefficient                                                             *)
(***************************************************************************)
Row(constant) == [constant |-> constant, cells |-> <<>>]

RemoveAt(seq, i) == SubSeq(seq, 1, i - 1) \o SubSeq(seq, i + 1, Len(seq))

\* position of the symbol in the cell map, 0 when it is absent
CellIndex(row, symbol) ==
    IF \E i \in 1..Len(row.cells) : row.cells[i].symbol = symbol
    THEN CHOOSE i \in 1..Len(row.cells) : row.cells[i].symbol = symbol
    ELSE 0

isConstant(row) == Len(row.cells) = 0

allDummies(row) == \A i \in 1..Len(row.cells) : row.cells[i].symbol.type = "Dummy"

add(row, value) == [row EXCEPT !.constant = RAdd(row.constant, value)]

insertSymbol(row, symbol, coefficient) ==
    LET i == CellIndex(row, symbol)
        c == RAdd(coefficient, IF i = 0 THEN Zero ELSE row.cells[i].coefficient)
        cell == [symbol |-> symbol, coefficient |-> c]
        set == IF i = 0 THEN Append(row.cells, cell)
               ELSE [row.cells EXCEPT ![i] = cell]
        at == IF i = 0 THEN Len(set) ELSE i
    IN  [row EXCEPT !.cells = IF nearZero(c) THEN RemoveAt(set, at) ELSE set]

RECURSIVE insertCells(_, _, _, _)
insertCells(row, otherCells, k, coefficient) ==
    IF k > Len(otherCells) THEN row
    ELSE insertCells(insertSymbol(row, otherCells[k].symbol,
                                  RMul(otherCells[k].coefficient, coefficient)),
                     otherCells, k + 1, coefficient)

insertRow(row, other, coefficient) ==
    insertCells([row EXCEPT !.constant =
                     RAdd(row.constant, RMul(other.constant, coefficient))],
                other.cells, 1, coefficient)

removeSymbol(row, symbol) ==
    LET i == CellIndex(row, symbol)
    IN  IF i = 0 THEN row ELSE [row EXCEPT !.cells = RemoveAt(row.cells, i)]

reverseSign(row) ==
    [constant |-> RNeg(row.constant),
     cells |-> [i \in 1..Len(row.cells) |->
                   [row.cells[i] EXCEPT !.coefficient = RNeg(@)]]]

\* solveFor that leaves the cell of the symbol in the row
solveForKeeping(row, symbol) ==
    LET coeff == RDiv(MinusOne, row.cells[CellIndex(row, symbol)].coefficient)
    IN  [constant |-> RMul(row.constant, coeff),
         cells |-> [j \in 1..Len(row.cells) |->
                       [row.cells[j] EXCEPT !.coefficient = RMul(@, coeff)]]]

\* the symbol must be a cell of the row
solveFor(row, symbol) ==
    LET i == CellIndex(row, symbol)
        coeff == RDiv(MinusOne, row.cells[i].coefficient)
        cells == RemoveAt(row.cells, i)
    IN  [constant |-> RMul(row.constant, coeff),
         cells |-> [j \in 1..Len(cells) |->
                       [cells[j] EXCEPT !.coefficient = RMul(@, coeff)]]]

solveForEx(row, lhs, rhs) == solveFor(insertSymbol(row, lhs, MinusOne), rhs)

coefficientFor(row, symbol) ==
    LET i == CellIndex(row, symbol)
    IN  IF i = 0 THEN Zero ELSE row.cells[i].coefficient

substitute(row, symbol, other) ==
    LET i == CellIndex(row, symbol)
    IN  IF i = 0 THEN row
        ELSE insertRow([row EXCEPT !.cells = RemoveAt(row.cells, i)],
                       other, row.cells[i].coefficient)

(***************************************************************************)
(* Strengths (strength.ts is not part of the sources; the scale is the     *)
(* specification's: a non-negative number with a "required" sentinel)      *)
(***************************************************************************)
Weak == 1
Medium == 10
Strong == 100
Required == 1000

clip(value) == IF value < 0 THEN 0 ELSE IF value > Required THEN Required ELSE value

(***************************************************************************)
(* The solver.  A solver value S is a record of the fields of class Solver *)
(* and of the exception the running call has thrown ("none" when it has    *)
(* not thrown).                                                            *)
(***************************************************************************)
NULL == [null |-> TRUE]

NewSolver ==
    [cnMap |-> <<>>, rowMap |-> <<>>, varMap |-> <<>>, editMap |-> <<>>,
     infeasibleRows |-> <<>>, objective |-> Row(Zero), artificial |-> NULL,
     idTick |-> 0, thrown |-> "none"]

throw(S, message) == [S EXCEPT !.thrown = message]

\* Map.has / get / set / delete on an insertion-ordered sequence of
\* [key, value] entries
MapIndex(map, key) ==
    IF \E i \in 1..Len(map) : map[i].key = key
    THEN CHOOSE i \in 1..Len(map) : map[i].key = key
    ELSE 0

MapHas(map, key) == MapIndex(map, key) # 0

MapGet(map, key) == map[MapIndex(map, key)].value

MapSet(map, key, value) ==
    LET i == MapIndex(map, key)
    IN  IF i = 0 THEN Append(map, [key |-> key, value |-> value])
        ELSE [map EXCEPT ![i].value = value]

MapDelete(map, key) ==
    LET i == MapIndex(map, key)
    IN  IF i = 0 THEN map ELSE RemoveAt(map, i)

\* _makeSymbol that leaves the counter where it was
_makeSymbolReused(S, type) == [S |-> S, symbol |-> Symbol(type, S.idTick)]

_makeSymbol(S, type) ==
    [S |-> [S EXCEPT !.idTick = @ + 1], symbol |-> Symbol(type, S.idTick)]

_getVarSymbol(S, variable) ==
    IF MapHas(S.varMap, variable)
    THEN [S |-> S, symbol |-> MapGet(S.varMap, variable)]
    ELSE LET m == _makeSymbol(S, "External")
         IN  [S |-> [m.S EXCEPT !.varMap = MapSet(@, variable, m.symbol)],
              symbol |-> m.symbol]

\* one call of the callback of the forEach in _createRow, with the symbol
\* _getVarSymbol returned (g)
createRowTerm(g, row, term) ==
    [S |-> g.S,
     row |-> IF MapHas(g.S.rowMap, g.symbol)
             THEN insertRow(row, MapGet(g.S.rowMap, g.symbol), term.coefficient)
             ELSE insertSymbol(row, g.symbol, term.coefficient)]

\* the forEach over the terms of the expression in _createRow, from term k
\* on; t holds the solver and the row
RECURSIVE createRowTerms(_, _, _, _), createRowTermsFrom(_, _, _)
createRowTerms(S, row, terms, k) ==
    IF k > Len(terms) THEN [S |-> S, row |-> row]
    ELSE IF nearZero(terms[k].coefficient)
         THEN createRowTerms(S, row, terms, k + 1)
         ELSE createRowTermsFrom(
                  createRowTerm(_getVarSymbol(S, terms[k].variable), row, terms[k]),
                  terms, k + 1)

createRowTermsFrom(t, terms, k) == createRowTerms(t.S, t.row, terms, k)

\* the case Operator.Le / Operator.Ge of _createRow, after the terms (t)
inequalityRow(t, coeff, strength) ==
    LET slack == _makeSymbol(t.S, "Slack").symbol
        error == _makeSymbol(_makeSymbol(t.S, "Slack").S, "Error").symbol
    IN  IF strength < Required
        THEN [S |-> [_makeSymbol(_makeSymbol(t.S, "Slack").S, "Error").S EXCEPT
                        !.objective = insertSymbol(@, error, Int2Rat(strength))],
              row |-> insertSymbol(insertSymbol(t.row, slack, coeff),
                                   error, RNeg(coeff)),
              tag |-> [marker |-> slack, other |-> error]]
        ELSE [S |-> _makeSymbol(t.S, "Slack").S,
              row |-> insertSymbol(t.row, slack, coeff),
              tag |-> [marker |-> slack, other |-> INVALID_SYMBOL]]

\* the case Operator.Eq that gives both error symbols the coefficient 1
equalityRowSameSign(t, strength) ==
    LET errplus == _makeSymbol(t.S, "Error").symbol
        errminus == _makeSymbol(_makeSymbol(t.S, "Error").S, "Error").symbol
        dummy == _makeSymbol(t.S, "Dummy").symbol
    IN  IF strength < Required
        THEN [S |-> [_makeSymbol(_makeSymbol(t.S, "Error").S, "Error").S EXCEPT
                        !.objective =
                            insertSymbol(insertSymbol(@, errplus, Int2Rat(strength)),
                                         errminus, Int2Rat(strength))],
              row |-> insertSymbol(insertSymbol(t.row, errplus, One),
                                   errminus, One),
              tag |-> [marker |-> errplus, other |-> errminus]]
        ELSE [S |-> _makeSymbol(t.S, "Dummy").S,
              row |-> insertSymbol(t.row, dummy, One),
              tag |-> [marker |-> dummy, other |-> INVALID_SYMBOL]]

\* the case Operator.Eq of _createRow, after the terms (t)
equalityRow(t, strength) ==
    LET errplus == _makeSymbol(t.S, "Error").symbol
        errminus == _makeSymbol(_makeSymbol(t.S, "Error").S, "Error").symbol
        dummy == _makeSymbol(t.S, "Dummy").symbol
    IN  IF strength < Required
        THEN [S |-> [_makeSymbol(_makeSymbol(t.S, "Error").S, "Error").S EXCEPT
                        !.objective =
                            insertSymbol(insertSymbol(@, errplus, Int2Rat(strength)),
                                         errminus, Int2Rat(strength))],
              row |-> insertSymbol(insertSymbol(t.row, errplus, MinusOne),
                                   errminus, One),
              tag |-> [marker |-> errplus, other |-> errminus]]
        ELSE [S |-> _makeSymbol(t.S, "Dummy").S,
              row |-> insertSymbol(t.row, dummy, One),
              tag |-> [marker |-> dummy, other |-> INVALID_SYMBOL]]

\* "Ensure the row has a positive constant."
positiveConstant(data) ==
    IF RNegative(data.row.constant)
    THEN [data EXCEPT !.row = reverseSign(@)]
    ELSE data

_createRow(S, constraint) ==
    positiveConstant(
        IF constraint.op = "Le"
        THEN inequalityRow(createRowTerms(S, Row(constraint.constant),
                                          constraint.terms, 1),
                           One, constraint.strength)
        ELSE IF constraint.op = "Ge"
        THEN inequalityRow(createRowTerms(S, Row(constraint.constant),
                                          constraint.terms, 1),
                           MinusOne, constraint.strength)
        ELSE equalityRow(createRowTerms(S, Row(constraint.constant),
                                        constraint.terms, 1),
                         constraint.strength))

\* index of the first cell of the row whose symbol has one of the types, 0
\* when there is none
FirstCellOfType(row, types) ==
    IF \E i \in 1..Len(row.cells) : row.cells[i].symbol.type \in types
    THEN CHOOSE i \in 1..Len(row.cells) :
             /\ row.cells[i].symbol.type \in types
             /\ \A j \in 1..(i - 1) : row.cells[j].symbol.type \notin types
    ELSE 0

\* _chooseSubject that takes a tag symbol whatever the sign of its coefficient
_chooseSubjectUnsigned(row, tag) ==
    LET i == FirstCellOfType(row, {"External"})
    IN  IF i # 0 THEN row.cells[i].symbol
        ELSE IF tag.marker.type \in {"Slack", "Error"} THEN tag.marker
        ELSE IF tag.other.type \in {"Slack", "Error"} THEN tag.other
        ELSE INVALID_SYMBOL

_chooseSubject(row, tag) ==
    LET i == FirstCellOfType(row, {"External"})
    IN  IF i # 0 THEN row.cells[i].symbol
        ELSE IF /\ tag.marker.type \in {"Slack", "Error"}
                /\ RNegative(coefficientFor(row, tag.marker))
             THEN tag.marker
        ELSE IF /\ tag.other.type \in {"Slack", "Error"}
                /\ RNegative(coefficientFor(row, tag.other))
             THEN tag.other
        ELSE INVALID_SYMBOL

_anyPivotableSymbol(row) ==
    LET i == FirstCellOfType(row, {"Slack", "Error"})
    IN  IF i # 0 THEN row.cells[i].symbol ELSE INVALID_SYMBOL

\* the entries of the basis whose symbols _substitute pushes, in order
infeasibleOf(rows) ==
    SelectSeq(rows, LAMBDA e : /\ RNegative(e.value.constant)
                               /\ e.key.type # "External")

\* _substitute after the forEach made the basis rows `rows`
substituted(S, rows, symbol, row) ==
    [S EXCEPT
        !.rowMap = rows,
        !.infeasibleRows =
            @ \o [i \in 1..Len(infeasibleOf(rows)) |-> infeasibleOf(rows)[i].key],
        !.objective = substitute(@, symbol, row),
        !.artificial = IF @ = NULL THEN @ ELSE substitute(@, symbol, row)]

\* _substitute that leaves the rows of the basis as they are
_substituteObjective(S, symbol, row) ==
    [S EXCEPT !.objective = substitute(@, symbol, row)]

_substitute(S, symbol, row) ==
    substituted(S,
        [i \in 1..Len(S.rowMap) |->
            [S.rowMap[i] EXCEPT !.value = substitute(@, symbol, row)]],
        symbol, row)

\* the forEach of _getEnteringSymbol: the first cell that qualifies
_getEnteringSymbol(objective) ==
    LET ok(i) == /\ RNegative(objective.cells[i].coefficient)
                 /\ objective.cells[i].symbol.type # "Dummy"
    IN  IF \E i \in 1..Len(objective.cells) : ok(i)
        THEN objective.cells[CHOOSE i \in 1..Len(objective.cells) :
                                 ok(i) /\ \A j \in 1..(i - 1) : ~ok(j)].symbol
        ELSE INVALID_SYMBOL

\* the forEach of _getDualEnteringSymbol, from cell k on
RECURSIVE dualEnteringScan(_, _, _, _, _)
dualEnteringScan(objective, row, k, ratio, entering) ==
    IF k > Len(row.cells) THEN entering
    ELSE LET c == row.cells[k].coefficient
             symbol == row.cells[k].symbol
             r == RDiv(coefficientFor(objective, symbol), c)
         IN  IF RPositive(c) /\ symbol.type # "Dummy" /\ RLt(r, ratio)
             THEN dualEnteringScan(objective, row, k + 1, r, symbol)
             ELSE dualEnteringScan(objective, row, k + 1, ratio, entering)

_getDualEnteringSymbol(S, row) ==
    dualEnteringScan(S.objective, row, 1, MAX_VALUE, INVALID_SYMBOL)

\* the forEach of _getLeavingSymbol, from row k on
RECURSIVE leavingScan(_, _, _, _, _)
leavingScan(rowMap, entering, k, ratio, found) ==
    IF k > Len(rowMap) THEN found
    ELSE LET temp == coefficientFor(rowMap[k].value, entering)
             temp_ratio == RDiv(RNeg(rowMap[k].value.constant), temp)
         IN  IF /\ rowMap[k].key.type # "External"
                /\ RNegative(temp)
                /\ RLt(temp_ratio, ratio)
             THEN leavingScan(rowMap, entering, k + 1, temp_ratio, rowMap[k].key)
             ELSE leavingScan(rowMap, entering, k + 1, ratio, found)

_getLeavingSymbol(S, entering) ==
    leavingScan(S.rowMap, entering, 1, MAX_VALUE, INVALID_SYMBOL)

\* the forEach of _getMarkerLeavingSymbol, from row k on; acc holds r1, r2,
\* first, second and third
RECURSIVE markerLeavingScan(_, _, _, _)
markerLeavingScan(rowMap, marker, k, acc) ==
    IF k > Len(rowMap) THEN acc
    ELSE LET c == coefficientFor(rowMap[k].value, marker)
             symbol == rowMap[k].key
             constant == rowMap[k].value.constant
             next ==
                 IF c = Zero THEN acc
                 ELSE IF symbol.type = "External"
                      THEN [acc EXCEPT !.third = symbol]
                 ELSE IF RNegative(c)
                      THEN LET r == RDiv(RNeg(constant), c)
                           IN  IF RLt(r, acc.r1)
                               THEN [acc EXCEPT !.r1 = r, !.first = symbol]
                               ELSE acc
                 ELSE LET r == RDiv(constant, c)
                      IN  IF RLt(r, acc.r2)
                          THEN [acc EXCEPT !.r2 = r, !.second = symbol]
                          ELSE acc
         IN  markerLeavingScan(rowMap, marker, k + 1, next)

\* _getMarkerLeavingSymbol that prefers the External row
_getMarkerLeavingSymbolExternal(S, marker) ==
    LET acc == markerLeavingScan(S.rowMap, marker, 1,
                   [r1 |-> MAX_VALUE, r2 |-> MAX_VALUE, first |-> INVALID_SYMBOL,
                    second |-> INVALID_SYMBOL, third |-> INVALID_SYMBOL])
    IN  IF acc.third # INVALID_SYMBOL THEN acc.third
        ELSE IF acc.first # INVALID_SYMBOL THEN acc.first
        ELSE acc.second

_getMarkerLeavingSymbol(S, marker) ==
    LET acc == markerLeavingScan(S.rowMap, marker, 1,
                   [r1 |-> MAX_VALUE, r2 |-> MAX_VALUE, first |-> INVALID_SYMBOL,
                    second |-> INVALID_SYMBOL, third |-> INVALID_SYMBOL])
    IN  IF acc.first # INVALID_SYMBOL THEN acc.first
        ELSE IF acc.second # INVALID_SYMBOL THEN acc.second
        ELSE acc.third

\* _substitute( symbol, row ) followed by _rowMap.set( symbol, row ): how
\* addConstraint, the artificial phase and every pivot install a solved row
enter(S, symbol, row) ==
    [_substitute(S, symbol, row) EXCEPT !.rowMap = MapSet(@, symbol, row)]

\* a pivot that leaves the tableau as it found it
pivotSkipped(S, leaving, entering) == S

\* "pivot the entering symbol into the basis": the statements shared by
\* _optimize and _dualOptimize
pivot(S, leaving, entering) ==
    enter([S EXCEPT !.rowMap = MapDelete(@, leaving)], entering,
          solveForEx(MapGet(S.rowMap, leaving), leaving, entering))

\* The most pivots one optimise loop of the model may take; a loop that
\* needs more is reported as the exception "pivot bound".
MaxPivots == 12

\* _optimize( this._objective ) when artificial is FALSE,
\* _optimize( this._artificial ) when it is TRUE
RECURSIVE optimizeLoop(_, _, _)
optimizeLoop(S, artificial, fuel) ==
    LET entering == _getEnteringSymbol(IF artificial THEN S.artificial
                                       ELSE S.objective)
        leaving == _getLeavingSymbol(S, entering)
    IN  IF entering.type = "Invalid" THEN S
        ELSE IF leaving.type = "Invalid"
             THEN throw(S, "the objective is unbounded")
        ELSE IF fuel = 0 THEN throw(S, "pivot bound")
        ELSE optimizeLoop(pivot(S, leaving, entering), artificial, fuel - 1)

\* _optimize that returns at once
_optimizeNone(S, artificial) == S

_optimize(S, artificial) == optimizeLoop(S, artificial, MaxPivots)

RECURSIVE dualOptimizeLoop(_, _)
dualOptimizeLoop(S, fuel) ==
    IF Len(S.infeasibleRows) = 0 THEN S
    ELSE LET leaving == S.infeasibleRows[Len(S.infeasibleRows)]
             S1 == [S EXCEPT !.infeasibleRows = SubSeq(@, 1, Len(@) - 1)]
         IN  IF /\ MapHas(S1.rowMap, leaving)
                /\ RNegative(MapGet(S1.rowMap, leaving).constant)
             THEN LET entering ==
                          _getDualEnteringSymbol(S1, MapGet(S1.rowMap, leaving))
                  IN  IF entering.type = "Invalid"
                      THEN throw(S1, "dual optimize failed")
                      ELSE IF fuel = 0 THEN throw(S1, "pivot bound")
                      ELSE dualOptimizeLoop(pivot(S1, leaving, entering), fuel - 1)
             ELSE dualOptimizeLoop(S1, fuel)

\* _dualOptimize that returns at once
_dualOptimizeNone(S) == S

_dualOptimize(S) == dualOptimizeLoop(S, MaxPivots)

\* the end of _addWithArtificialVariable without the removal of the
\* artificial symbol from the rows and the objective
removeArtificialKept(S, art) == S

\* "Remove the artificial variable from the tableau."
removeArtificial(S, art) ==
    [S EXCEPT !.rowMap = [i \in 1..Len(@) |->
                             [@[i] EXCEPT !.value = removeSymbol(@, art)]],
              !.objective = removeSymbol(@, art)]

\* _addWithArtificialVariable once the artificial objective is optimised and
\* reset to null: S is the solver, success the outcome of the zero test
artificialLeaves(S, art, success) ==
    IF MapHas(S.rowMap, art)
    THEN IF isConstant(MapGet(S.rowMap, art))
         THEN [S |-> [S EXCEPT !.rowMap = MapDelete(@, art)], result |-> success]
         ELSE IF _anyPivotableSymbol(MapGet(S.rowMap, art)).type = "Invalid"
              THEN [S |-> [S EXCEPT !.rowMap = MapDelete(@, art)],
                    result |-> FALSE]
         ELSE [S |-> removeArtificial(
                         enter([S EXCEPT !.rowMap = MapDelete(@, art)],
                               _anyPivotableSymbol(MapGet(S.rowMap, art)),
                               solveForEx(MapGet(S.rowMap, art), art,
                                          _anyPivotableSymbol(MapGet(S.rowMap, art)))),
                         art),
               result |-> success]
    ELSE [S |-> removeArtificial(S, art), result |-> success]

\* _addWithArtificialVariable after _optimize( this._artificial )
artificialOptimized(S, art) ==
    IF S.thrown # "none" THEN [S |-> S, result |-> FALSE]
    ELSE artificialLeaves([S EXCEPT !.artificial = NULL], art,
                          nearZero(S.artificial.constant))

\* returns the solver and the boolean result
_addWithArtificialVariable(S, row) ==
    artificialOptimized(
        _optimize([_makeSymbol(S, "Slack").S EXCEPT
                      !.rowMap = MapSet(@, _makeSymbol(S, "Slack").symbol, row),
                      !.artificial = row],
                  TRUE),
        _makeSymbol(S, "Slack").symbol)

\* _removeMarkerEffects that subtracts the symbol also when it is basic
_removeMarkerEffectsSymbol(S, marker, strength) ==
    [S EXCEPT !.objective = insertSymbol(@, marker, RNeg(Int2Rat(strength)))]

_removeMarkerEffects(S, marker, strength) ==
    IF MapHas(S.rowMap, marker)
    THEN [S EXCEPT !.objective =
             insertRow(@, MapGet(S.rowMap, marker), RNeg(Int2Rat(strength)))]
    ELSE [S EXCEPT !.objective = insertSymbol(@, marker, RNeg(Int2Rat(strength)))]

\* _removeConstraintEffects that leaves the error weights in the objective
_removeConstraintEffectsNone(S, cn, tag) == S

_removeConstraintEffects(S, cn, tag) ==
    LET S1 == IF tag.marker.type = "Error"
              THEN _removeMarkerEffects(S, tag.marker, cn.strength) ELSE S
    IN  IF tag.other.type = "Error"
        THEN _removeMarkerEffects(S1, tag.other, cn.strength) ELSE S1

(***************************************************************************)
(* The public methods.  Each takes the solver before the call and returns  *)
(* the solver after it, with thrown set when the call threw; what a call   *)
(* mutated before it threw stays mutated.                                  *)
(***************************************************************************)
\* the end of addConstraint: record the tag, optimise the objective
addConstraintDone(S, constraint, tag) ==
    _optimize([S EXCEPT !.cnMap = MapSet(@, constraint, tag)], FALSE)

\* addConstraint after _addWithArtificialVariable returned art
addConstraintArtificial(art, constraint, tag) ==
    IF art.S.thrown # "none" THEN art.S
    ELSE IF ~art.result THEN throw(art.S, "unsatisfiable constraint")
    ELSE addConstraintDone(art.S, constraint, tag)

\* addConstraint after _createRow (data) and _chooseSubject (subject)
addConstraintRow(data, constraint, subject) ==
    IF subject.type = "Invalid" /\ allDummies(data.row)
    THEN IF ~nearZero(data.row.constant)
         THEN throw(data.S, "unsatifiable constraint")
         ELSE addConstraintDone(
                  enter(data.S, data.tag.marker,
                        solveFor(data.row, data.tag.marker)),
                  constraint, data.tag)
    ELSE IF subject.type = "Invalid"
         THEN addConstraintArtificial(
                  _addWithArtificialVariable(data.S, data.row),
                  constraint, data.tag)
    ELSE addConstraintDone(enter(data.S, subject, solveFor(data.row, subject)),
                           constraint, data.tag)

\* addConstraint that records the tag before the row is in the basis
addConstraintRecordedFirst(data, constraint) ==
    addConstraintRow([data EXCEPT !.S.cnMap = MapSet(@, constraint, data.tag)],
                     constraint, _chooseSubject(data.row, data.tag))

addConstraintCreated(data, constraint) ==
    addConstraintRow(data, constraint, _chooseSubject(data.row, data.tag))

\* addConstraint without the test for a constraint already held
addConstraintUnchecked(S, constraint) ==
    addConstraintCreated(_createRow(S, constraint), constraint)

addConstraint(S, constraint) ==
    IF MapHas(S.cnMap, constraint) THEN throw(S, "duplicate constraint")
    ELSE addConstraintCreated(_createRow(S, constraint), constraint)

\* removeConstraint when the marker is not basic, with the leaving symbol
\* _getMarkerLeavingSymbol returned
removeConstraintPivot(S, marker, leaving) ==
    IF leaving.type = "Invalid" THEN throw(S, "failed to find leaving row")
    ELSE _optimize(
             _substitute([S EXCEPT !.rowMap = MapDelete(@, leaving)], marker,
                         solveForEx(MapGet(S.rowMap, leaving), leaving, marker)),
             FALSE)

\* removeConstraint that keeps the row of a basic marker
removeConstraintMarkerKept(S, marker) ==
    IF MapHas(S.rowMap, marker) THEN _optimize(S, FALSE)
    ELSE removeConstraintPivot(S, marker, _getMarkerLeavingSymbol(S, marker))

\* removeConstraint after _removeConstraintEffects
removeConstraintMarker(S, marker) ==
    IF MapHas(S.rowMap, marker)
    THEN _optimize([S EXCEPT !.rowMap = MapDelete(@, marker)], FALSE)
    ELSE removeConstraintPivot(S, marker, _getMarkerLeavingSymbol(S, marker))

removeConstraint(S, constraint) ==
    IF ~MapHas(S.cnMap, constraint) THEN throw(S, "unknown constraint")
    ELSE removeConstraintMarker(
             _removeConstraintEffects(
                 [S EXCEPT !.cnMap = MapDelete(@, constraint)], constraint,
                 MapGet(S.cnMap, constraint)),
             MapGet(S.cnMap, constraint).marker)

hasConstraint(S, constraint) == MapHas(S.cnMap, constraint)

\* new Constraint( new Expression( variable ), Operator.Eq, strength ): a
\* fresh object each time, told apart by the id counter at its creation
EditConstraint(S, variable, strength) ==
    [id |-> <<"edit", variable, S.idTick>>,
     constant |-> Zero,
     terms |-> <<[variable |-> variable, coefficient |-> One]>>,
     op |-> "Eq",
     strength |-> strength]

\* addEditVariable after this.addConstraint( cn ) returned S
addEditVariableInfo(S, variable, cn) ==
    IF S.thrown # "none" THEN S
    ELSE [S EXCEPT !.editMap =
             MapSet(@, variable, [tag |-> MapGet(S.cnMap, cn), constraint |-> cn,
                                  constant |-> Zero])]

\* addEditVariable that tests the strength before clipping it
addEditVariableUnclipped(S, variable, strength) ==
    IF MapHas(S.editMap, variable) THEN throw(S, "duplicate edit variable")
    ELSE IF strength = Required THEN throw(S, "bad required strength")
    ELSE addEditVariableInfo(
             addConstraint(S, EditConstraint(S, variable, clip(strength))),
             variable, EditConstraint(S, variable, clip(strength)))

addEditVariable(S, variable, strength) ==
    IF MapHas(S.editMap, variable) THEN throw(S, "duplicate edit variable")
    ELSE IF clip(strength) = Required THEN throw(S, "bad required strength")
    ELSE addEditVariableInfo(
             addConstraint(S, EditConstraint(S, variable, clip(strength))),
             variable, EditConstraint(S, variable, clip(strength)))

\* removeEditVariable that leaves the edit info in the edit map
removeEditVariableKeeping(S, variable) ==
    IF ~MapHas(S.editMap, variable) THEN throw(S, "unknown edit variable")
    ELSE removeConstraint(S, MapGet(S.editMap, variable).constraint)

removeEditVariable(S, variable) ==
    IF ~MapHas(S.editMap, variable) THEN throw(S, "unknown edit variable")
    ELSE removeConstraint([S EXCEPT !.editMap = MapDelete(@, variable)],
                          MapGet(S.editMap, variable).constraint)

hasEditVariable(S, variable) == MapHas(S.editMap, variable)

\* row.add( d ) on the basic row of the symbol, pushed on the worklist when
\* its constant turns negative
suggestBasic(S, symbol, d) ==
    [S EXCEPT !.rowMap = MapSet(@, symbol, add(MapGet(@, symbol), d)),
              !.infeasibleRows =
                  IF RNegative(add(MapGet(S.rowMap, symbol), d).constant)
                  THEN Append(@, symbol) ELSE @]

\* the rows of the forEach of suggestValue whose symbols it pushes, in order
suggestPushed(rows, marker) ==
    SelectSeq(rows, LAMBDA e : /\ coefficientFor(e.value, marker) # Zero
                               /\ RNegative(e.value.constant)
                               /\ e.key.type # "External")

\* "Otherwise update each row where the error variables exist."
suggestRows(S, rows, marker) ==
    [S EXCEPT !.rowMap = rows,
              !.infeasibleRows =
                  @ \o [i \in 1..Len(suggestPushed(rows, marker)) |->
                           suggestPushed(rows, marker)[i].key]]

\* suggestValue after info.constant = value
suggestDelta(S, tag, delta) ==
    IF MapHas(S.rowMap, tag.marker)
    THEN _dualOptimize(suggestBasic(S, tag.marker, RNeg(delta)))
    ELSE IF MapHas(S.rowMap, tag.other)
    THEN _dualOptimize(suggestBasic(S, tag.other, delta))
    ELSE _dualOptimize(
             suggestRows(S,
                 [i \in 1..Len(S.rowMap) |->
                     IF coefficientFor(S.rowMap[i].value, tag.marker) # Zero
                     THEN [S.rowMap[i] EXCEPT !.value =
                              add(@, RMul(delta, coefficientFor(@, tag.marker)))]
                     ELSE S.rowMap[i]],
                 tag.marker))

suggestValue(S, variable, value) ==
    IF ~MapHas(S.editMap, variable) THEN throw(S, "unknown edit variable")
    ELSE suggestDelta(
             [S EXCEPT !.editMap =
                 MapSet(@, variable,
                        [MapGet(@, variable) EXCEPT !.constant = value])],
             MapGet(S.editMap, variable).tag,
             RSub(value, MapGet(S.editMap, variable).constant))

\* the value updateVariables sets a variable of the variable map to
readBack(S, variable) ==
    LET symbol == MapGet(S.varMap, variable)
    IN  IF MapHas(S.rowMap, symbol) THEN MapGet(S.rowMap, symbol).constant
        ELSE Zero

\* the variables' values after updateVariables, from their values before it
updateVariables(S, values) ==
    [v \in DOMAIN values |->
        IF MapHas(S.varMap, v) THEN readBack(S, v) ELSE values[v]]

(***************************************************************************)
(* The callers: variables, constraint objects and the calls they make      *)
(***************************************************************************)
Variables == {"x", "y"}

Term(variable, coefficient) ==
    [variable |-> variable, coefficient |-> Int2Rat(coefficient)]

\* a Constraint object "terms + constant op 0"; its identity is its id
Constraint(name, terms, constant, op, strength) ==
    [id |-> <<"user", name, 0>>, constant |-> Int2Rat(constant), terms |-> terms,
     op |-> op, strength |-> clip(strength)]

X == <<Term("x", 1)>>
XplusY == <<Term("x", 1), Term("y", 1)>>
XminusY == <<Term("x", 1), Term("y", -1)>>
Y == <<Term("y", 1)>>

\* the constraint sets a caller works with, one per behaviour
Pools ==
    << \* x + y == 4, x >= y, strong x == 3, weak x == 1
       {Constraint("sum", XplusY, -4, "Eq", Required),
        Constraint("order", XminusY, 0, "Ge", Required),
        Constraint("strong3", X, -3, "Eq", Strong),
        Constraint("weak1", X, -1, "Eq", Weak)},
       \* x == 1, x == 2, x >= 1, x <= 0, all required
       {Constraint("eq1", X, -1, "Eq", Required),
        Constraint("eq2", X, -2, "Eq", Required),
        Constraint("ge1", X, -1, "Ge", Required),
        Constraint("le0", X, 0, "Le", Required)},
       \* x <= y, y == 3, x >= 2, all required, and medium y <= 1
       {Constraint("xley", XminusY, 0, "Le", Required),
        Constraint("y3", Y, -3, "Eq", Required),
        Constraint("ge2", X, -2, "Ge", Required),
        Constraint("yle1", Y, -1, "Le", Medium)},
       \* x == 1 twice, as two constraint objects, and x == 2, all required
       {Constraint("one", X, -1, "Eq", Required),
        Constraint("same", X, -1, "Eq", Required),
        Constraint("two", X, -2, "Eq", Required)} >>

\* the strengths and values the callers pass for edit variables
EditStrengths == {Strong, Required, Required + 1}
EditVariables == {"x"}
Suggestions == {Int2Rat(-1), Int2Rat(2)}

\* Symbol ids the model lets the solver mint: a call that adds a constraint
\* is made only while the id counter is below it
MaxId == 5

VARIABLES cnMap, rowMap, varMap, editMap, infeasibleRows, objective,
          artificial, idTick, thrown, value, lastCall, pool

vars == <<cnMap, rowMap, varMap, editMap, infeasibleRows, objective,
          artificial, idTick, thrown, value, lastCall, pool>>

\* the solver object as a call finds it
Cur ==
    [cnMap |-> cnMap, rowMap |-> rowMap, varMap |-> varMap, editMap |-> editMap,
     infeasibleRows |-> infeasibleRows, objective |-> objective,
     artificial |-> artificial, idTick |-> idTick, thrown |-> "none"]

\* The constant of the objective row is written by every substitution into
\* the objective and read by no statement of the solver (the entering and the
\* dual entering symbol are chosen by the objective's cells alone), and a
\* sequence of suggestValue calls makes it drift without bound.  The model
\* keeps the objective's cells between calls and not this constant.
Kept(row) == [row EXCEPT !.constant = Zero]

\* the solver object as the call of the method op leaves it
Returns(S, op) ==
    /\ cnMap' = S.cnMap
    /\ rowMap' = S.rowMap
    /\ varMap' = S.varMap
    /\ editMap' = S.editMap
    /\ infeasibleRows' = S.infeasibleRows
    /\ objective' = Kept(S.objective)
    /\ artificial' = S.artificial
    /\ idTick' = S.idTick
    /\ thrown' = S.thrown
    /\ lastCall' = op
    /\ UNCHANGED pool

\* Entries the model lets the infeasible worklist hold: no call is made on a
\* solver whose worklist is longer
MaxWorklist == 2

\* the model stops at a call that ran into the model's pivot bound, and when
\* the worklist has outgrown its bound
Running == thrown # "pivot bound" /\ Len(infeasibleRows) <= MaxWorklist

Init ==
    /\ cnMap = NewSolver.cnMap
    /\ rowMap = NewSolver.rowMap
    /\ varMap = NewSolver.varMap
    /\ editMap = NewSolver.editMap
    /\ infeasibleRows = NewSolver.infeasibleRows
    /\ objective = NewSolver.objective
    /\ artificial = NewSolver.artificial
    /\ idTick = NewSolver.idTick
    /\ thrown = NewSolver.thrown
    /\ value = [v \in Variables |-> Zero]
    /\ lastCall = "new"
    /\ pool \in 1..Len(Pools)

AddConstraint ==
    \E c \in Pools[pool] :
        /\ Running
        /\ idTick < MaxId
        /\ Returns(addConstraint(Cur, c), "addConstraint")
        /\ UNCHANGED value

RemoveConstraint ==
    \E c \in Pools[pool] :
        /\ Running
        /\ Returns(removeConstraint(Cur, c), "removeConstraint")
        /\ UNCHANGED value

AddEditVariable ==
    \E v \in EditVariables, s \in EditStrengths :
        /\ Running
        /\ idTick < MaxId
        /\ Returns(addEditVariable(Cur, v, s), "addEditVariable")
        /\ UNCHANGED value

RemoveEditVariable ==
    \E v \in EditVariables :
        /\ Running
        /\ Returns(removeEditVariable(Cur, v), "removeEditVariable")
        /\ UNCHANGED value

SuggestValue ==
    \E v \in EditVariables, n \in Suggestions :
        /\ Running
        /\ Returns(suggestValue(Cur, v, n), "suggestValue")
        /\ UNCHANGED value

\* updateVariables writes the variables' values and nothing of the solver;
\* lastCall and thrown stay those of the last call that can change the solver
UpdateVariables ==
    /\ Running
    /\ value' = updateVariables(Cur, value)
    /\ UNCHANGED <<cnMap, rowMap, varMap, editMap, infeasibleRows, objective,
                   artificial, idTick, thrown, lastCall, pool>>

Next ==
    \/ AddConstraint
    \/ RemoveConstraint
    \/ AddEditVariable
    \/ RemoveEditVariable
    \/ SuggestValue
    \/ UpdateVariables

Spec == Init /\ [][Next]_vars

(***************************************************************************)
(* What the claims speak of                                                *)
(***************************************************************************)
\* the constraints the solver holds, their tags, and the basis symbols
Held == {cnMap[i].key : i \in 1..Len(cnMap)}
HeldRequired == {c \in Held : c.strength = Required}
HeldSoft == {c \in Held : c.strength < Required}
BasisKeys == {rowMap[i].key : i \in 1..Len(rowMap)}

\* the left-hand side of the constraint under an assignment of the variables
RECURSIVE SumTerms(_, _, _)
SumTerms(terms, k, assignment) ==
    IF k > Len(terms) THEN Zero
    ELSE RAdd(RMul(terms[k].coefficient, assignment[terms[k].variable]),
              SumTerms(terms, k + 1, assignment))

Lhs(c, assignment) == RAdd(c.constant, SumTerms(c.terms, 1, assignment))

Satisfies(assignment, c) ==
    CASE c.op = "Eq" -> Lhs(c, assignment) = Zero
      [] c.op = "Le" -> ~RPositive(Lhs(c, assignment))
      [] c.op = "Ge" -> ~RNegative(Lhs(c, assignment))

\* the variables hold what updateVariables last wrote, and no call changed
\* the solver since
ReadBack == value = updateVariables(Cur, value)

\* the values updateVariables would write now
Values == updateVariables(Cur, value)

\* Candidate assignments: every variable a multiple of 1/2 between
\* -GridReach/2 and GridReach/2.  The boundary lines of the constraints of a
\* pool and of the edit constraints meet in such points.
GridReach == 8
Grid == {Rat(k, 2) : k \in (-GridReach)..GridReach}
Assignments == [Variables -> Grid]

\* by how much the assignment violates the constraint
Violation(c, assignment) ==
    CASE c.op = "Eq" -> RAbs(Lhs(c, assignment))
      [] c.op = "Le" -> RMax(Zero, Lhs(c, assignment))
      [] c.op = "Ge" -> RMax(Zero, RNeg(Lhs(c, assignment)))

\* a held constraint as the solver means it: the synthetic constraint of an
\* edit variable is v == the last suggested value
Meant(c) ==
    IF \E i \in 1..Len(editMap) : editMap[i].value.constraint = c
    THEN [c EXCEPT !.constant =
             RNeg(editMap[CHOOSE i \in 1..Len(editMap) :
                              editMap[i].value.constraint = c].value.constant)]
    ELSE c

RECURSIVE SumOver(_, _)
SumOver(set, assignment) ==
    IF set = {} THEN Zero
    ELSE LET c == CHOOSE d \in set : TRUE
         IN  RAdd(RMul(Int2Rat(c.strength), Violation(Meant(c), assignment)),
                  SumOver(set \ {c}, assignment))

\* the weighted violation of the held non-required constraints
Cost(assignment) == SumOver(HeldSoft, assignment)

Feasible(assignment, required) == \A c \in required : Satisfies(assignment, c)

Solvable(required) == \E a \in Assignments : Feasible(a, required)

Unsatisfiable == {"unsatifiable constraint", "unsatisfiable constraint"}

\* The calls of a caller that never has an addConstraint fail in the
\* artificial-variable phase
NextUnfailed == Next /\ thrown' # "unsatisfiable constraint"

SpecUnfailed == Init /\ [][NextUnfailed]_vars

\* The calls of a caller that, besides, never has a redundant required
\* equality accepted: no call leaves a Dummy symbol as a key of the basis
NextPlain ==
    /\ NextUnfailed
    /\ \A i \in 1..Len(rowMap') : rowMap'[i].key.type # "Dummy"

SpecPlain == Init /\ [][NextPlain]_vars

\* The calls that change the solver.  updateVariables reads the tableau and
\* writes the variables only, so the solvers these calls reach are the
\* solvers Spec reaches
NextSolver ==
    \/ AddConstraint
    \/ RemoveConstraint
    \/ AddEditVariable
    \/ RemoveEditVariable
    \/ SuggestValue

SpecSolver == Init /\ [][NextSolver]_vars

\* the state in which a call made on S right after an earlier call finds it
Then(S) == [S EXCEPT !.thrown = "none", !.objective = Kept(@)]

Mutating == {"addConstraint", "removeConstraint", "suggestValue"}

(***************************************************************************)
(* C1 - C10                                                                *)
(***************************************************************************)

\* C1: after any sequence of calls followed by updateVariables, the values of
\* the variables satisfy every required constraint the solver holds.
C1_RequiredSatisfied ==
    ReadBack => \A c \in HeldRequired : Satisfies(value, c)

\* C2: after a successful addConstraint, removeConstraint or suggestValue the
\* values read back satisfy the held required constraints and no assignment
\* that satisfies them has a smaller weighted violation of the held
\* non-required constraints.
C2_MinimalViolation ==
    (thrown = "none" /\ lastCall \in Mutating) =>
        /\ Feasible(Values, HeldRequired)
        /\ \A a \in Assignments :
               Feasible(a, HeldRequired) => RLe(Cost(Values), Cost(a))

\* C3: addConstraint of a required constraint that is not held throws the
\* unsatisfiable error exactly when the constraint and the held required
\* constraints have no common solution.
C3_UnsatisfiableIff ==
    \A c \in Pools[pool] :
        (c.strength = Required /\ c \notin Held) =>
            (addConstraint(Cur, c).thrown \in Unsatisfiable
                 <=> ~Solvable(HeldRequired \cup {c}))

\* C4: an addConstraint that throws the unsatisfiable error leaves the basis,
\* the objective, the constraint map, the edit map and the worklist as they
\* were, and the values updateVariables yields.
C4_FailedAddUnchanged ==
    [][(lastCall' = "addConstraint" /\ thrown' \in Unsatisfiable) =>
           /\ rowMap' = rowMap
           /\ objective' = objective
           /\ cnMap' = cnMap
           /\ editMap' = editMap
           /\ infeasibleRows' = infeasibleRows
           /\ Values' = Values]_vars

\* C5: addConstraint of a held constraint throws "duplicate constraint" and
\* removeConstraint of a constraint that is not held throws "unknown
\* constraint"; either call leaves every field of the solver as it was.
C5_DuplicateUnknown ==
    \A c \in Pools[pool] :
        /\ c \in Held =>
               addConstraint(Cur, c) = throw(Cur, "duplicate constraint")
        /\ c \notin Held =>
               removeConstraint(Cur, c) = throw(Cur, "unknown constraint")

C5_Witness ==
    /\ lastCall = "addConstraint"
    /\ thrown = "duplicate constraint"
    /\ Len(rowMap) > 1

\* C6: addEditVariable throws "duplicate edit variable" for a registered
\* variable and "bad required strength" for a strength that clips to
\* required; removeEditVariable and suggestValue throw "unknown edit variable"
\* for a variable that is not registered; each leaves every field of the solver
\* as it was.
C6_EditErrors ==
    \A v \in Variables :
        /\ \A s \in EditStrengths :
               /\ hasEditVariable(Cur, v) =>
                      addEditVariable(Cur, v, s) =
                          throw(Cur, "duplicate edit variable")
               /\ (~hasEditVariable(Cur, v) /\ clip(s) = Required) =>
                      addEditVariable(Cur, v, s) =
                          throw(Cur, "bad required strength")
        /\ ~hasEditVariable(Cur, v) =>
               /\ removeEditVariable(Cur, v) = throw(Cur, "unknown edit variable")
               /\ \A n \in Suggestions :
                      suggestValue(Cur, v, n) =
                          throw(Cur, "unknown edit variable")

C6_Witness ==
    /\ lastCall = "addEditVariable"
    /\ thrown = "bad required strength"
    /\ Len(rowMap) > 1

\* C7: after every call, whatever its outcome, every row of the basis has a
\* constant that is not negative.  Stated here for the rows the claim can
\* be meant for, those whose key is not the External symbol of a variable
\* (a variable may take a negative value); the claim implies it.
C7_RowsNonNegative ==
    \A i \in 1..Len(rowMap) :
        rowMap[i].key.type # "External" => ~RNegative(rowMap[i].value.constant)

\* C8: after every call no cell of the objective row whose symbol is not a
\* Dummy has a negative coefficient.
C8_ObjectiveOptimal ==
    \A i \in 1..Len(objective.cells) :
        objective.cells[i].symbol.type # "Dummy" =>
            ~RNegative(objective.cells[i].coefficient)

\* C9: no symbol is the key of two rows of the basis, and no row of the basis
\* has its own key among its cells.
C9_BasisWellFormed ==
    /\ \A i, j \in 1..Len(rowMap) : rowMap[i].key = rowMap[j].key => i = j
    /\ \A i \in 1..Len(rowMap) : CellIndex(rowMap[i].value, rowMap[i].key) = 0

C9_Witness ==
    /\ lastCall \in Mutating
    /\ thrown = "none"
    /\ Len(rowMap) >= 2
    /\ \E i \in 1..Len(rowMap) :
           /\ rowMap[i].key.type \in {"Slack", "Error"}
           /\ Len(rowMap[i].value.cells) >= 2

\* the variables' values read back after removeConstraint(c) is called right
\* after addConstraint(c) on the solver as it is
AfterAddRemove(c) ==
    updateVariables(removeConstraint(Then(addConstraint(Cur, c)), c), value)

AfterAdd(c) == updateVariables(addConstraint(Cur, c), value)

\* C10 as claimed: in every reachable state, a successful addConstraint(c) and
\* then removeConstraint(c) give every variable the value it read before.
C10_AddRemoveRestoresValues ==
    \A c \in Pools[pool] :
        (c \notin Held /\ addConstraint(Cur, c).thrown = "none") =>
            AfterAddRemove(c) = Values

\* the values read back are the only assignment that satisfies the held
\* required constraints with the least weighted violation
UniquelyOptimal ==
    /\ Feasible(Values, HeldRequired)
    /\ \A a \in Assignments :
           (Feasible(a, HeldRequired) /\ RLe(Cost(a), Cost(Values))) => a = Values

Named(name) == CHOOSE c \in Pools[pool] : c.id = <<"user", name, 0>>

\* a solver that was given required x + y == 4 and required x >= y only
SumAndOrder ==
    /\ pool = 1
    /\ Held = {Named("sum"), Named("order")}
    /\ idTick = 4

\* removeConstraint(c), returning the solver R, succeeded and gives the
\* values read before the add, unless they were not the only optimal ones
RemoveRestores(R) ==
    /\ R.thrown = "none"
    /\ updateVariables(R, value) = Values \/ ~UniquelyOptimal

\* addConstraint(c), returning the solver A, is undone by removeConstraint(c)
AddIsUndone(c, A) ==
    A.thrown = "none" => RemoveRestores(removeConstraint(Then(A), c))

\* C10 as amended: a successful addConstraint(c) and then removeConstraint(c)
\* give every variable the value it read before whenever the values read
\* before were the only optimal ones; with required x + y == 4 and required
\* x >= y, adding strong x == 3 gives x = 3, y = 1 and removing it gives
\* x = y = 2 again.
C10_AddRemoveRestoresOptimum ==
    /\ \A c \in Pools[pool] \ Held : AddIsUndone(c, addConstraint(Cur, c))
    /\ SumAndOrder =>
           /\ Values = [x |-> Int2Rat(2), y |-> Int2Rat(2)]
           /\ AfterAdd(Named("strong3")) = [x |-> Int2Rat(3), y |-> Int2Rat(1)]
           /\ AfterAddRemove(Named("strong3")) = Values

\* the add moves a variable away from the only optimal values and the remove
\* moves it back
C10_Witness ==
    \E c \in Pools[pool] :
        /\ c \notin Held
        /\ addConstraint(Cur, c).thrown = "none"
        /\ AfterAdd(c) # Values
        /\ AfterAddRemove(c) = Values
        /\ HeldSoft # {}
        /\ UniquelyOptimal

\* the solver after suggestValue(v, a) is called on the solver S left by an
\* earlier call
Suggested(S, v, a) == suggestValue(Then(S), v, a)

\* C11: for a registered edit variable v, suggestValue(v, a) twice in a row
\* reads back the values it reads back once, and suggestValue(v, a),
\* suggestValue(v, b), suggestValue(v, a) reads back the values read after the
\* first suggestValue(v, a).
C11_SuggestReturns ==
    \A v \in EditVariables :
        hasEditVariable(Cur, v) =>
            \A a, b \in Suggestions :
                suggestValue(Cur, v, a).thrown = "none" =>
                    /\ updateVariables(Suggested(suggestValue(Cur, v, a), v, a), value)
                           = updateVariables(suggestValue(Cur, v, a), value)
                    /\ updateVariables(
                           Suggested(Suggested(suggestValue(Cur, v, a), v, b), v, a),
                           value)
                           = updateVariables(suggestValue(Cur, v, a), value)

\* the constraints of the caller that the solver holds
HeldUser == Held \cap Pools[pool]

\* a required lower bound x >= lo on the variable alone
IsLowerBound(c, v) ==
    /\ c.op = "Ge"
    /\ c.strength = Required
    /\ c.terms = <<Term(v, 1)>>

\* a solver that was given one required lower bound on v and the edit
\* variable v and nothing else: the two calls mint four symbols
BoundAndEdit(c, v) ==
    /\ HeldUser = {c}
    /\ IsLowerBound(c, v)
    /\ hasEditVariable(Cur, v)
    /\ idTick = 4

\* C12: on a fresh solver holding only a required bound x >= lo and the edit
\* variable x, after any sequence of suggestValue calls x reads the larger of
\* lo and the value suggested last.
C12_SuggestRespectsBound ==
    \A c \in Pools[pool] : \A v \in EditVariables :
        BoundAndEdit(c, v) =>
            Values[v] = RMax(MapGet(editMap, v).constant, RNeg(c.constant))

C12_Witness ==
    /\ lastCall = "suggestValue"
    /\ thrown = "none"
    /\ \E c \in Pools[pool] :
           /\ BoundAndEdit(c, "x")
           /\ MapGet(editMap, "x").constant = Int2Rat(-1)
           /\ RNeg(c.constant) = Int2Rat(1)
           /\ value["x"] = Int2Rat(2)
           /\ Values["x"] = Int2Rat(1)

\* a solver that was given strong x == 3 and weak x == 1 and nothing else
StrongAndWeak ==
    /\ pool = 1
    /\ Held = {Named("strong3"), Named("weak1")}
    /\ idTick = 5

\* C13: on a fresh solver, after adding two conflicting non-required
\* equalities on x, in either order, x reads the target of the stronger one.
C13_StrongerWins ==
    StrongAndWeak => Values["x"] = Int2Rat(3)

C13_Witness ==
    /\ StrongAndWeak
    /\ lastCall = "addConstraint"
    /\ thrown = "none"
    /\ cnMap[1].key = Named("weak1")
    /\ Values["x"] = Int2Rat(3)

\* a solver that was given required x <= y, then required y == 3, then
\* required x >= 2, and nothing else (the constraint map keeps the order)
BoundedBetween ==
    /\ pool = 3
    /\ [i \in 1..Len(cnMap) |-> cnMap[i].key]
           = <<Named("xley"), Named("y3"), Named("ge2")>>
    /\ idTick = 5

\* C14 as claimed: on a fresh solver, after adding required x <= y, required
\* y == 3 and required x >= 2 in that order, x reads 2 and y reads 3.
C14_ChainedBounds ==
    BoundedBetween => Values = [x |-> Int2Rat(2), y |-> Int2Rat(3)]

\* C14 as amended: after these three calls x reads 3, the value of y, and y
\* reads 3.
C14_ChainedBoundsUpper ==
    BoundedBetween => Values = [x |-> Int2Rat(3), y |-> Int2Rat(3)]

C14_Witness ==
    /\ BoundedBetween
    /\ lastCall = "addConstraint"
    /\ thrown = "none"
    /\ Len(rowMap) = 3
    /\ Satisfies(Values, Named("ge2"))

\* the constraints the solver S holds
HeldIn(S) == {S.cnMap[i].key : i \in 1..Len(S.cnMap)}

\* what addConstraint(c), returning the solver A, does to hasConstraint
AddSetsHas(c, A) ==
    /\ IF A.thrown = "none" THEN hasConstraint(A, c)
       ELSE hasConstraint(A, c) <=> hasConstraint(Cur, c)
    /\ HeldIn(A) \ {c} = Held \ {c}
    /\ A.thrown \in Unsatisfiable =>
           addConstraint(Then(A), c).thrown # "duplicate constraint"

\* what removeConstraint(c), returning the solver R, does to hasConstraint
RemoveClearsHas(c, R) ==
    /\ IF R.thrown = "none" THEN ~hasConstraint(R, c)
       ELSE hasConstraint(R, c) <=> hasConstraint(Cur, c)
    /\ HeldIn(R) \ {c} = Held \ {c}

\* C15: hasConstraint(c) becomes true by a successful addConstraint(c), false
\* by a successful removeConstraint(c), and is changed by no other call: not
\* by an addConstraint(c) or removeConstraint(c) that throws, not by a call
\* for another constraint, not by the calls for edit variables; a constraint
\* whose add threw the unsatisfiable error is not a duplicate when added again.
C15_HasConstraintLifecycle ==
    /\ lastCall = "new" => Held = {}
    /\ \A c \in Pools[pool] :
           /\ AddSetsHas(c, addConstraint(Cur, c))
           /\ RemoveClearsHas(c, removeConstraint(Cur, c))
    /\ \A v \in EditVariables :
           /\ \A s \in EditStrengths :
                  HeldIn(addEditVariable(Cur, v, s)) \cap Pools[pool] = HeldUser
           /\ HeldIn(removeEditVariable(Cur, v)) \cap Pools[pool] = HeldUser
           /\ \A a \in Suggestions : HeldIn(suggestValue(Cur, v, a)) = Held

\* an add has thrown the unsatisfiable error, and the constraint that was
\* rejected is not held and is rejected again, not as a duplicate
C15_Witness ==
    /\ lastCall = "addConstraint"
    /\ thrown \in Unsatisfiable
    /\ Held # {}
    /\ \E c \in Pools[pool] :
           /\ ~hasConstraint(Cur, c)
           /\ addConstraint(Cur, c).thrown \in Unsatisfiable

\* the constraints held that addEditVariable made for the variable
EditConstraintsOf(v) ==
    {c \in Held : c.id[1] = "edit" /\ c.id[2] = v}

\* the solver after addEditVariable(v, s) is called right after
\* removeEditVariable(v)
Reregistered(v, s) == addEditVariable(Then(removeEditVariable(Cur, v)), v, s)

\* v is registered in the solver S with a last suggested value of 0
RegisteredAtZero(S, v) ==
    /\ S.thrown = "none"
    /\ hasEditVariable(S, v)
    /\ MapGet(S.editMap, v).constant = Zero

\* the edit info of the registered variable v names the one constraint held
\* for v, the equality v == 0, under its tag
EditInfoMatches(v, info) ==
    /\ EditConstraintsOf(v) = {info.constraint}
    /\ MapGet(cnMap, info.constraint) = info.tag
    /\ info.constraint.op = "Eq"
    /\ info.constraint.terms = <<Term(v, 1)>>
    /\ info.constraint.constant = Zero

\* removeEditVariable(v), returning the solver R, removed the edit info and
\* the constraint cn of v
Unregistered(v, cn, R) ==
    /\ ~hasEditVariable(R, v)
    /\ ~hasConstraint(R, cn)

\* what addEditVariable(v, s), returning the solver E, does to hasEditVariable
AddRegisters(v, E) ==
    IF E.thrown = "none" THEN RegisteredAtZero(E, v)
    ELSE hasEditVariable(E, v) <=> hasEditVariable(Cur, v)

\* C16: hasEditVariable(v) becomes true by a successful addEditVariable(v, s)
\* and false by removeEditVariable(v), and no other call changes it; while v
\* is registered the constraint map holds exactly one constraint made for v,
\* the equality v == 0 of the edit info, under the tag of the edit info, and
\* none when v is not registered; removeEditVariable(v) removes both, and
\* registering v again succeeds with a last suggested value of 0.
C16_EditLifecycle ==
    \A v \in EditVariables :
        /\ IF hasEditVariable(Cur, v)
           THEN /\ EditInfoMatches(v, MapGet(editMap, v))
                /\ Unregistered(v, MapGet(editMap, v).constraint,
                                removeEditVariable(Cur, v))
                /\ RegisteredAtZero(Reregistered(v, Strong), v)
           ELSE /\ EditConstraintsOf(v) = {}
                /\ ~hasEditVariable(removeEditVariable(Cur, v), v)
        /\ \A s \in EditStrengths : AddRegisters(v, addEditVariable(Cur, v, s))
        /\ \A a \in Suggestions :
               hasEditVariable(suggestValue(Cur, v, a), v) <=> hasEditVariable(Cur, v)
        /\ \A c \in Pools[pool] :
               /\ hasEditVariable(addConstraint(Cur, c), v) <=> hasEditVariable(Cur, v)
               /\ hasEditVariable(removeConstraint(Cur, c), v)
                      <=> hasEditVariable(Cur, v)

\* the variable is registered for the second time, after a suggestion
C16_Witness ==
    /\ lastCall = "addEditVariable"
    /\ thrown = "none"
    /\ hasEditVariable(Cur, "x")
    /\ MapGet(editMap, "x").constraint.id[3] > 2
    /\ MapGet(editMap, "x").constant = Zero
    /\ HeldUser # {}

\* no constraint the solver holds has a term in the variable
Unconstrained(v) ==
    \A c \in Held : \A k \in 1..Len(c.terms) : c.terms[k].variable # v

\* C17: updateVariables gives every variable of the variable map the constant
\* of the basis row of its symbol, or 0 when the symbol is not basic; called
\* again without a mutation in between it gives the same values; and a
\* variable whose every constraint has been removed reads 0.
C17_PureReadBack ==
    /\ updateVariables(Cur, Values) = Values
    /\ \A v \in Variables :
           MapHas(varMap, v) =>
               /\ MapGet(varMap, v) \in BasisKeys =>
                      Values[v] = MapGet(rowMap, MapGet(varMap, v)).constant
               /\ MapGet(varMap, v) \notin BasisKeys => Values[v] = Zero
               /\ Unconstrained(v) => Values[v] = Zero

\* C18: the worklist of infeasible rows is empty after every public call,
\* whether it returned or threw.
C18_WorklistEmpty ==
    infeasibleRows = <<>>

\* the row acc plus strength x the symbol, the symbol replaced by its basis
\* row when it is basic; only Error symbols count
WithError(acc, symbol, strength) ==
    IF symbol.type # "Error" THEN acc
    ELSE IF MapHas(rowMap, symbol)
         THEN insertRow(acc, MapGet(rowMap, symbol), Int2Rat(strength))
         ELSE insertSymbol(acc, symbol, Int2Rat(strength))

\* the sum over the constraints held, from the k-th on, of strength x the
\* Error symbols of their tags
RECURSIVE ErrorSum(_, _)
ErrorSum(k, acc) ==
    IF k > Len(cnMap) THEN acc
    ELSE ErrorSum(k + 1,
                  WithError(WithError(acc, cnMap[k].value.marker,
                                      cnMap[k].key.strength),
                            cnMap[k].value.other, cnMap[k].key.strength))

CellsOf(row) == {row.cells[i] : i \in 1..Len(row.cells)}

\* C19: after every successful call the cells of the objective row are the
\* sum, over the non-required constraints held and the Error symbols of their
\* tags, of strength x the symbol, replaced by its basis row when it is basic;
\* when no non-required constraint is held the objective row has no cells.
C19_ObjectiveIsErrorSum ==
    thrown = "none" =>
        /\ CellsOf(objective) = CellsOf(ErrorSum(1, Row(Zero)))
        /\ Len(objective.cells) = Cardinality(CellsOf(objective))
        /\ HeldSoft = {} => objective.cells = <<>>

C19_Witness ==
    /\ thrown = "none"
    /\ lastCall = "removeConstraint"
    /\ Cardinality(HeldSoft) = 1
    /\ Len(objective.cells) >= 2
    /\ \E i \in 1..Len(cnMap) :
           cnMap[i].value.marker.type = "Error" /\ MapHas(rowMap, cnMap[i].value.marker)

\* the required equalities held that have the terms of c
Twins(c) ==
    {h \in HeldRequired : h.op = "Eq" /\ h.terms = c.terms}

\* c is a required equality that repeats one held
Redundant(c) ==
    /\ c.op = "Eq"
    /\ c.strength = Required
    /\ \E h \in Twins(c) : h.constant = c.constant

\* c is a required equality with the terms of one held and another constant
Clashing(c) ==
    /\ c.op = "Eq"
    /\ c.strength = Required
    /\ \E h \in Twins(c) : h.constant # c.constant

\* removeConstraint(gone), returning the solver R, succeeded and the values
\* satisfy the constraint that stays
RemovedKeeping(R, stays) ==
    /\ R.thrown = "none"
    /\ hasConstraint(R, stays)
    /\ Satisfies(updateVariables(R, value), stays)

\* addConstraint(c) of a redundant c returned the solver A: the Dummy marker
\* of c is a key of the basis, and either one of c and its twin h can be
\* removed
AcceptedRedundant(c, A) ==
    /\ A.thrown = "none"
    /\ MapGet(A.cnMap, c).marker.type = "Dummy"
    /\ MapHas(A.rowMap, MapGet(A.cnMap, c).marker)
    /\ \A h \in Twins(c) :
           h.constant = c.constant =>
               /\ RemovedKeeping(removeConstraint(Then(A), c), h)
               /\ RemovedKeeping(removeConstraint(Then(A), h), c)

\* C20: addConstraint accepts a required equality that repeats one held, with
\* its Dummy marker as a key of the basis, and rejects as unsatisfiable one
\* with the same terms and another constant; after the redundant one is
\* accepted, removing either of the pair succeeds and the values satisfy the
\* one that stays.
C20_RedundantAccepted ==
    \A c \in Pools[pool] \ Held :
        /\ Redundant(c) => AcceptedRedundant(c, addConstraint(Cur, c))
        /\ (Clashing(c) /\ ~Redundant(c)) =>
               addConstraint(Cur, c).thrown \in Unsatisfiable

\* the redundant pair is held, the second of them by its Dummy marker
C20_Witness ==
    /\ lastCall = "addConstraint"
    /\ thrown = "none"
    /\ pool = 4
    /\ {Named("one"), Named("same")} \subseteq Held
    /\ \E i \in 1..Len(rowMap) : rowMap[i].key.type = "Dummy"

SymbolsIn(row) == {row.cells[i].symbol : i \in 1..Len(row.cells)}

\* every symbol the solver object holds between two calls: the keys and the
\* cells of the basis, the cells of the objective, the symbols of the
\* variables, the tags of the constraints and of the edit variables, the
\* worklist
Minted ==
    UNION {{rowMap[i].key} \cup SymbolsIn(rowMap[i].value) : i \in 1..Len(rowMap)}
    \cup SymbolsIn(objective)
    \cup {varMap[i].value : i \in 1..Len(varMap)}
    \cup UNION {{cnMap[i].value.marker, cnMap[i].value.other} :
                   i \in 1..Len(cnMap)}
    \cup UNION {{editMap[i].value.tag.marker, editMap[i].value.tag.other} :
                   i \in 1..Len(editMap)}
    \cup {infeasibleRows[i] : i \in 1..Len(infeasibleRows)}

\* the ids in use are below the counter and name one symbol each; the
\* variables have External symbols
MintedDistinct ==
    /\ \A s \in Minted \ {INVALID_SYMBOL} : s.id >= 0 /\ s.id < idTick
    /\ \A s, t \in Minted : s.id = t.id => s = t
    /\ \A i \in 1..Len(varMap) : varMap[i].value.type = "External"

\* C22: over every call, failed ones included, the id counter does not
\* decrease, every symbol in use has an id of its own between 0 and the
\* counter (so none is the Invalid sentinel, id -1), and every variable that
\* had a symbol keeps that External symbol.
C22_IdsMonotone ==
    [][/\ idTick' >= idTick
       /\ MintedDistinct'
       /\ \A i \in 1..Len(varMap) :
              /\ MapHas(varMap', varMap[i].key)
              /\ MapGet(varMap', varMap[i].key) = varMap[i].value]_vars

\* a call has thrown after symbols were minted for it
C22_Witness ==
    /\ thrown \in Unsatisfiable
    /\ idTick >= 4
    /\ Len(varMap) >= 1
    /\ Len(cnMap) >= 1

\* the symbol is a Slack or an Error symbol with a negative coefficient in
\* the row
NegativeAuxiliary(row, symbol) ==
    /\ symbol.type \in {"Slack", "Error"}
    /\ \E k \in 1..Len(row.cells) :
           /\ row.cells[k].symbol = symbol
           /\ RNegative(row.cells[k].coefficient)

\* subject is the symbol the precedence names for the row and the tag
SubjectByPrecedence(row, tag, subject) ==
    LET externals == {k \in 1..Len(row.cells) :
                         row.cells[k].symbol.type = "External"}
    IN  /\ externals # {} =>
               \E k \in externals : /\ subject = row.cells[k].symbol
                                     /\ \A j \in externals : k <= j
        /\ (externals = {} /\ NegativeAuxiliary(row, tag.marker)) =>
               subject = tag.marker
        /\ (externals = {} /\ ~NegativeAuxiliary(row, tag.marker)
                /\ NegativeAuxiliary(row, tag.other)) => subject = tag.other
        /\ (externals = {} /\ ~NegativeAuxiliary(row, tag.marker)
                /\ ~NegativeAuxiliary(row, tag.other)) =>
               subject = INVALID_SYMBOL
        /\ subject.type # "Dummy"
        /\ subject.type \in {"Slack", "Error"} =>
               NegativeAuxiliary(row, subject)

\* the constraints a call of addConstraint may bring: those of the pool not
\* held, and the edit constraint of a variable not registered
Addable ==
    (Pools[pool] \ Held)
    \cup {EditConstraint(Cur, v, Strong) :
              v \in {w \in EditVariables : ~MapHas(editMap, w)}}

SubjectOf(data) ==
    SubjectByPrecedence(data.row, data.tag, _chooseSubject(data.row, data.tag))

\* C23: for the row and the tag _createRow builds for any constraint that can
\* be added, _chooseSubject returns the first External cell of the row if
\* there is one, else the marker if it is a Slack or Error symbol with a
\* negative coefficient, else the other tag symbol under the same test, else
\* Invalid; never a Dummy, never a Slack or Error with a positive coefficient.
C23_SubjectPrecedence == \A c \in Addable : SubjectOf(_createRow(Cur, c))

\* the constraint added last was solved for its own marker, a Slack or an
\* Error symbol, its variable being basic already
C23_Witness ==
    /\ lastCall = "addConstraint"
    /\ thrown = "none"
    /\ Len(cnMap) >= 2
    /\ cnMap[Len(cnMap)].value.marker.type \in {"Slack", "Error"}
    /\ MapHas(rowMap, cnMap[Len(cnMap)].value.marker)
    /\ \A i \in 1..Len(varMap) : MapHas(rowMap, varMap[i].value)

\* the indices of the basis rows that hold the marker: under a key that is
\* not External with a negative coefficient, with a positive one, and under
\* an External key
MarkerNegative(marker) ==
    {i \in 1..Len(rowMap) :
        /\ rowMap[i].key.type # "External"
        /\ RNegative(coefficientFor(rowMap[i].value, marker))}

MarkerPositive(marker) ==
    {i \in 1..Len(rowMap) :
        /\ rowMap[i].key.type # "External"
        /\ RPositive(coefficientFor(rowMap[i].value, marker))}

MarkerExternal(marker) ==
    {i \in 1..Len(rowMap) :
        /\ rowMap[i].key.type = "External"
        /\ coefficientFor(rowMap[i].value, marker) # Zero}

\* -constant / c of row i for the marker when sign is -1, constant / c when
\* sign is 1
MarkerRatio(marker, i, sign) ==
    RDiv(RMul(sign, rowMap[i].value.constant),
         coefficientFor(rowMap[i].value, marker))

\* row i has the least ratio among the rows, and is the first to have it
FirstLeast(marker, rows, sign, i) ==
    /\ i \in rows
    /\ \A j \in rows :
           /\ RLe(MarkerRatio(marker, i, sign), MarkerRatio(marker, j, sign))
           /\ MarkerRatio(marker, j, sign) = MarkerRatio(marker, i, sign) =>
                  i <= j

\* leaving is the key of the row the precedence names for the marker
LeavingByPrecedence(marker, leaving) ==
    IF MarkerNegative(marker) # {}
    THEN \E i \in MarkerNegative(marker) :
             /\ FirstLeast(marker, MarkerNegative(marker), MinusOne, i)
             /\ leaving = rowMap[i].key
    ELSE IF MarkerPositive(marker) # {}
    THEN \E i \in MarkerPositive(marker) :
             /\ FirstLeast(marker, MarkerPositive(marker), One, i)
             /\ leaving = rowMap[i].key
    ELSE IF MarkerExternal(marker) # {}
    THEN \E i \in MarkerExternal(marker) :
             /\ \A j \in MarkerExternal(marker) : j <= i
             /\ leaving = rowMap[i].key
    ELSE leaving = INVALID_SYMBOL

\* C24: for every constraint held whose marker is not basic, the leaving
\* symbol removeConstraint would get is the key of the non-External row with a
\* negative marker coefficient c and the least -constant/c if there is one,
\* else of the non-External row with a positive c and the least constant/c,
\* else of the last External row with a non-zero c, ties going to the row
\* found first; Invalid only when no basis row holds the marker.
C24_MarkerLeavingPrecedence ==
    \A i \in 1..Len(cnMap) :
        ~MapHas(rowMap, cnMap[i].value.marker) =>
            LeavingByPrecedence(cnMap[i].value.marker,
                                _getMarkerLeavingSymbol(Cur, cnMap[i].value.marker))

\* a constraint is held whose marker is not basic and stands, with a negative
\* coefficient, in a row that is not External and, with any, in an External
\* row
C24_Witness ==
    /\ thrown = "none"
    /\ \E i \in 1..Len(cnMap) :
           /\ ~MapHas(rowMap, cnMap[i].value.marker)
           /\ MarkerNegative(cnMap[i].value.marker) # {}
           /\ MarkerExternal(cnMap[i].value.marker) # {}

\* the symbols of the tableau of the solver S: the keys and the cells of
\* the basis rows and the cells of the objective
TableauOf(S) ==
    UNION {{S.rowMap[i].key} \cup SymbolsIn(S.rowMap[i].value) :
              i \in 1..Len(S.rowMap)}
    \cup SymbolsIn(S.objective)

\* no key of the basis is a cell of a basis row or of the objective
Parametric ==
    /\ \A i \in 1..Len(rowMap) : SymbolsIn(rowMap[i].value) \cap BasisKeys = {}
    /\ SymbolsIn(objective) \cap BasisKeys = {}

\* addConstraint takes the row of data through the artificial phase
ArtificialPhase(data) ==
    /\ _chooseSubject(data.row, data.tag).type = "Invalid"
    /\ ~allDummies(data.row)

\* the call that ended in A, after _createRow returned data, has left no
\* trace of the artificial symbol, which is the one minted after data
ArtificialGone(data, A) ==
    /\ A.artificial = NULL
    /\ Symbol("Slack", data.S.idTick) \notin TableauOf(A)

\* the row of data has no basic symbol, and if it goes through the
\* artificial phase the artificial symbol is gone when the call ends
RowParametric(data, c) ==
    /\ SymbolsIn(data.row) \cap BasisKeys = {}
    /\ ArtificialPhase(data) => ArtificialGone(data, addConstraint(Cur, c))

\* C25: after every call no basis key is a cell of any basis row or of the
\* objective; the row _createRow builds for a constraint that can be added
\* has cells of non-basic symbols only; and when addConstraint takes the row
\* through the artificial phase, the artificial symbol is nowhere in the
\* tableau and the artificial objective is null once the call has returned
\* or thrown.
C25_CellsParametric ==
    /\ Parametric
    /\ \A c \in Addable : RowParametric(_createRow(Cur, c), c)

\* a required inequality was added through the artificial phase: its marker
\* is a Slack symbol, the symbol minted last is in no tag and its variable
\* was basic already
C25_Witness ==
    /\ lastCall = "addConstraint"
    /\ thrown = "none"
    /\ Len(cnMap) >= 2
    /\ cnMap[Len(cnMap)].key.strength = Required
    /\ cnMap[Len(cnMap)].value.marker = Symbol("Slack", idTick - 2)
    /\ Len(rowMap) = Len(cnMap)

\* C26: after every call the basis has as many rows as the solver holds
\* constraints, edit constraints included.
C26_RowsMatchConstraints == Len(rowMap) = Len(cnMap)

\* the exceptions that report a broken tableau
InternalErrors ==
    {"the objective is unbounded", "dual optimize failed",
     "failed to find leaving row"}

\* C27: no call of any sequence of public calls on a fresh solver throws an
\* internal error, whatever errors earlier calls have thrown.
C27_NoInternalError == thrown \notin InternalErrors

\* the row of data is solved for a symbol _chooseSubject found, and the
\* call that ended in A has not thrown unsatisfiable
SolvedDirectly(data, A) ==
    /\ _chooseSubject(data.row, data.tag).type # "Invalid"
    /\ ~ArtificialPhase(data)
    /\ A.thrown \notin Unsatisfiable

\* C28: addConstraint of a constraint not held with a strength below
\* required finds a subject for its row, does not enter the artificial phase
\* and does not throw unsatisfiable; addEditVariable of a variable not
\* registered with a strength that clips below required succeeds.
C28_SoftAddsAccepted ==
    /\ \A c \in {a \in Addable : a.strength < Required} :
           SolvedDirectly(_createRow(Cur, c), addConstraint(Cur, c))
    /\ \A v \in EditVariables, strength \in EditStrengths :
           (~MapHas(editMap, v) /\ clip(strength) < Required) =>
               addEditVariable(Cur, v, strength).thrown = "none"

\* a constraint below required was added while required constraints keep its
\* variables from the value it asks for
C28_Witness ==
    /\ lastCall \in {"addConstraint", "addEditVariable"}
    /\ thrown = "none"
    /\ HeldRequired # {}
    /\ Len(cnMap) >= 2
    /\ cnMap[Len(cnMap)].key.strength < Required
    /\ ~Satisfies(Values, cnMap[Len(cnMap)].key)

\* neither symbol of the tag is a key or a cell of the tableau of R, the
\* solver a successful removeConstraint returned
TagGone(tag, R) ==
    R.thrown = "none" => {tag.marker, tag.other} \cap TableauOf(R) = {}

\* C29: after a successful removeConstraint of any constraint held, neither
\* the marker nor the other symbol of its tag is a key of the basis, a cell of
\* a basis row or a cell of the objective.
C29_RemovedTagGone ==
    \A i \in 1..Len(cnMap) :
        TagGone(cnMap[i].value, removeConstraint(Cur, cnMap[i].key))

\* a constraint was removed from a solver that still holds others, one of
\* them below required: the objective has cells
C29_Witness ==
    /\ lastCall = "removeConstraint"
    /\ thrown = "none"
    /\ Len(cnMap) >= 2
    /\ Len(objective.cells) >= 1
    /\ Len(rowMap) >= 2

====
